---- MODULE Spec2Model ----
(***************************************************************************)
(* Model of src/src/lib.rs: extract_data_offset,                           *)
(* transform_into_configurable_loader (with its instruction template       *)
(* get_instructions) and the part of tests::test_name that publishes the   *)
(* code blob, builds the loader and runs it.  The loader is run on a       *)
(* model of the target VM that executes the twelve instruction kinds the   *)
(* template emits; instruction encoding and instruction semantics are      *)
(* those of the fuel_asm / fuel_vm crates the source imports.              *)
(*                                                                         *)
(* Numbers.  A byte is a natural below 256.  A u64 produced by             *)
(* u64::from_be_bytes is kept as four 16-bit limbs, most significant       *)
(* first, so that all 64 bits are kept.  usize is taken to be 64 bits      *)
(* wide (the `as usize` of line 18 is then lossless).                      *)
(***************************************************************************)
EXTENDS Integers, Sequences, FiniteSets, TLC

\* ------------------------------------------------------------------ bounds
\* Longest tail of the input binary after its 16-byte header.
MaxTail == 3
\* Size of the modelled VM memory; the heap pointer starts at its top.
VM_MAX_RAM == 208
\* Largest count handed to the instruction template when its length is probed.
MaxCount == 20

\* ------------------------------------------------------------------ constants
BLOB_ID_SIZE == 32
REG_ADDRESS_OF_DATA_AFTER_CODE == 16
REG_START_OF_LOADED_CODE == 17
REG_GENERAL_USE == 18
REG_START_OF_DATA_SECTION == 19
REG_BLOB_SIZE == 22
WORD_SIZE == 8
InstructionSIZE == 4
RegZERO == 0
RegPC == 3
RegSP == 5
RegIS == 12
HEADER_LEN == 16

\* ------------------------------------------------------------------ helpers
Take(s, n) == SubSeq(s, 1, n)
Drop(s, n) == SubSeq(s, n + 1, Len(s))

RECURSIVE Flatten(_)
Flatten(ss) == IF ss = <<>> THEN <<>> ELSE Head(ss) \o Flatten(Tail(ss))

Ok(v) == [ok |-> TRUE, val |-> v]
Panicked == [ok |-> FALSE, val |-> <<>>]

\* u64::from_be_bytes: bytes b[1] (most significant) .. b[8], as 16-bit limbs.
from_be_bytes(b) == [i \in 1..4 |-> b[2 * i - 1] * 256 + b[2 * i]]

\* Mutant of to_be_bytes: least significant byte first.
to_le_bytes(w) ==
  [i \in 1..8 |-> IF i % 2 = 1 THEN w[4 - (i - 1) \div 2] % 256
                  ELSE w[4 - (i - 1) \div 2] \div 256]

\* u64::to_be_bytes.
to_be_bytes(w) ==
  [i \in 1..8 |-> IF i % 2 = 1 THEN w[(i + 1) \div 2] \div 256 ELSE w[i \div 2] % 256]

\* u64::try_from(n) for a length n (a usize below 2^16 in every modelled run).
u64_from_len(n) == <<0, 0, 0, n>>

\* offset <= n, for a u64 offset and a length n below 2^16.
U64Leq(w, n) == w[1] = 0 /\ w[2] = 0 /\ w[3] = 0 /\ w[4] <= n
U64Low(w) == w[4]

\* Mutants of extract_data_offset: the field read least significant byte
\* first; the window [0, 8) read instead of [8, 16); no failure on a short
\* binary.
extract_data_offset_le(binary) ==
  IF Len(binary) < HEADER_LEN THEN Panicked
  ELSE Ok(from_be_bytes([i \in 1..8 |-> binary[17 - i]]))
extract_data_offset_window(binary) ==
  IF Len(binary) < HEADER_LEN THEN Panicked
  ELSE Ok(from_be_bytes(SubSeq(binary, 1, 8)))
extract_data_offset_total(binary) ==
  IF Len(binary) < HEADER_LEN THEN Ok(u64_from_len(0))
  ELSE Ok(from_be_bytes(SubSeq(binary, 9, 16)))

\* extract_data_offset: binary[8..16] panics on fewer than 16 bytes.
extract_data_offset(binary) ==
  IF Len(binary) < HEADER_LEN THEN Panicked
  ELSE Ok(from_be_bytes(SubSeq(binary, 9, 16)))

\* ------------------------------------------------------------------ instructions
\* An instruction is [op, ra, rb, lo]: lo is the low 12 bits of the word
\* (rc and rd, six bits each, or a 12-bit immediate; imm06 sits where rd does).
Ins(op, ra, rb, lo) == [op |-> op, ra |-> ra, rb |-> rb, lo |-> lo]
move_(ra, rb) == Ins("MOVE", ra, rb, 0)
addi(ra, rb, imm) == Ins("ADDI", ra, rb, imm)
bsiz(ra, rb) == Ins("BSIZ", ra, rb, 0)
ldc(ra, rb, rc, imm) == Ins("LDC", ra, rb, rc * 64 + imm)
lw(ra, rb, imm) == Ins("LW", ra, rb, imm)
cfe(ra) == Ins("CFE", ra, 0, 0)
sub(ra, rb, rc) == Ins("SUB", ra, rb, rc * 64)
mcp(ra, rb, rc) == Ins("MCP", ra, rb, rc * 64)
add(ra, rb, rc) == Ins("ADD", ra, rb, rc * 64)
logd(ra, rb, rc, rd) == Ins("LOGD", ra, rb, rc * 64 + rd)
divi(ra, rb, imm) == Ins("DIVI", ra, rb, imm)
jmp(ra) == Ins("JMP", ra, 0, 0)

Ops == {"MOVE", "ADDI", "BSIZ", "LDC", "LW", "CFE", "SUB", "MCP", "ADD", "LOGD", "DIVI", "JMP"}

\* Opcode byte of each instruction kind, as the fuel_asm crate assigns them;
\* only their being distinct matters below.
Opcode(op) ==
  CASE op = "ADD" -> 16 [] op = "MOVE" -> 26 [] op = "SUB" -> 32
    [] op = "MCP" -> 40 [] op = "LDC" -> 50 [] op = "LOGD" -> 52
    [] op = "JMP" -> 74 [] op = "ADDI" -> 80 [] op = "DIVI" -> 82
    [] op = "LW" -> 93 [] op = "CFE" -> 146 [] op = "BSIZ" -> 186

\* Instruction::to_bytes: the 32-bit word, big-endian.
to_bytes(ins) ==
  LET v == ins.ra * 262144 + ins.rb * 4096 + ins.lo
  IN  <<Opcode(ins.op), v \div 65536, (v \div 256) % 256, v % 256>>

\* The VM's decoding of four bytes.
Decode(b) ==
  LET v == b[2] * 65536 + b[3] * 256 + b[4]
      lo == v % 4096
  IN  [op |-> IF \E o \in Ops : Opcode(o) = b[1]
               THEN CHOOSE o \in Ops : Opcode(o) = b[1] ELSE "INVALID",
       ra |-> v \div 262144, rb |-> (v \div 4096) % 64,
       rc |-> lo \div 64, rd |-> lo % 64, imm |-> lo]

\* The instruction array of the closure get_instructions (lines 37-94).
loader_template(num_of_instructions) ==
  << move_(REG_ADDRESS_OF_DATA_AFTER_CODE, RegPC),
     addi(REG_ADDRESS_OF_DATA_AFTER_CODE, REG_ADDRESS_OF_DATA_AFTER_CODE,
          num_of_instructions * InstructionSIZE),
     move_(REG_START_OF_LOADED_CODE, RegSP),
     bsiz(REG_GENERAL_USE, REG_ADDRESS_OF_DATA_AFTER_CODE),
     move_(REG_BLOB_SIZE, REG_GENERAL_USE),
     ldc(REG_ADDRESS_OF_DATA_AFTER_CODE, RegZERO, REG_GENERAL_USE, 1),
     addi(REG_ADDRESS_OF_DATA_AFTER_CODE, REG_ADDRESS_OF_DATA_AFTER_CODE, BLOB_ID_SIZE),
     lw(REG_GENERAL_USE, REG_ADDRESS_OF_DATA_AFTER_CODE, 0),
     addi(REG_ADDRESS_OF_DATA_AFTER_CODE, REG_ADDRESS_OF_DATA_AFTER_CODE, WORD_SIZE),
     cfe(REG_GENERAL_USE),
     sub(REG_START_OF_DATA_SECTION, RegSP, REG_GENERAL_USE),
     mcp(REG_START_OF_DATA_SECTION, REG_ADDRESS_OF_DATA_AFTER_CODE, REG_GENERAL_USE),
     add(REG_BLOB_SIZE, REG_BLOB_SIZE, REG_GENERAL_USE),
     logd(RegZERO, RegZERO, REG_START_OF_LOADED_CODE, REG_BLOB_SIZE),
     sub(REG_START_OF_LOADED_CODE, REG_START_OF_LOADED_CODE, RegIS),
     divi(REG_START_OF_LOADED_CODE, REG_START_OF_LOADED_CODE, 4),
     jmp(REG_START_OF_LOADED_CODE) >>

\* Mutants of get_instructions: the count is baked in one too low; the stack
\* is extended by the blob size instead of the data length; the jump target
\* is divided by 8 instead of 4.
get_instructions_short_count(num_of_instructions) ==
  [loader_template(num_of_instructions) EXCEPT
     ![2] = addi(REG_ADDRESS_OF_DATA_AFTER_CODE, REG_ADDRESS_OF_DATA_AFTER_CODE,
                 (num_of_instructions - 1) * InstructionSIZE)]
get_instructions_cfe_blob(num_of_instructions) ==
  [loader_template(num_of_instructions) EXCEPT ![10] = cfe(REG_BLOB_SIZE)]
get_instructions_divi8(num_of_instructions) ==
  [loader_template(num_of_instructions) EXCEPT
     ![16] = divi(REG_START_OF_LOADED_CODE, REG_START_OF_LOADED_CODE, 8)]

\* The closure get_instructions of transform_into_configurable_loader.
get_instructions(num_of_instructions) == loader_template(num_of_instructions)

\* Mutant of data_section_of: the whole binary is appended.
data_section_whole(binary, offset) == binary

\* Line 99: binary[offset..].to_vec(), for an offset within the binary.
data_section_of(binary, offset) == Drop(binary, offset)

\* transform_into_configurable_loader (lines 97-117).
transform_into_configurable_loader(binary, blob_id) ==
  LET offset == extract_data_offset(binary)
  IN  IF ~offset.ok THEN Panicked
      ELSE IF ~U64Leq(offset.val, Len(binary)) THEN Panicked
      ELSE
        LET data_section == data_section_of(binary, U64Low(offset.val))
            num_of_instructions == Len(get_instructions(0))
            instructions == get_instructions(num_of_instructions)
            instruction_bytes ==
              Flatten([k \in 1..Len(instructions) |-> to_bytes(instructions[k])])
            data_section_len == u64_from_len(Len(data_section))
        IN  Ok(instruction_bytes \o blob_id \o to_be_bytes(data_section_len)
               \o data_section)

\* ------------------------------------------------------------------ inputs
\* Bytes 0..7 of the header.
Prefix == <<7, 6, 5, 4, 3, 2, 1, 9>>
\* Bytes 8..14 of the header: the seven high bytes of the data offset.
HighBytes ==
  { <<0, 0, 0, 0, 0, 0, 0>>, <<1, 0, 0, 0, 0, 0, 0>>,
    <<0, 0, 0, 0, 0, 0, 1>>, <<255, 255, 255, 255, 255, 255, 255>> }
\* Byte 15 of the header: the low byte of the data offset.
LowBytes == 0..(HEADER_LEN + MaxTail + 1) \cup {255}
TailOf(n) == [i \in 1..n |-> 16 * i + 1]
\* Lengths below the header's, which extract_data_offset cannot read.
ShortLens == {0, 8, 15}
Binaries ==
  { Take(Prefix \o h \o <<l>> \o TailOf(MaxTail), n) :
      h \in HighBytes, l \in LowBytes,
      n \in ShortLens \cup (HEADER_LEN..(HEADER_LEN + MaxTail)) }
\* A second binary: the first with one byte (0-based index k) replaced.
Altered(b, k) ==
  IF k < Len(b) THEN [b EXCEPT ![k + 1] = (b[k + 1] + 128) % 256] ELSE b
AlteredAt == {1, 16}
BlobIds == { [i \in 1..BLOB_ID_SIZE |-> (k * i + 3) % 256] : k \in {1, 7} }
\* Where the VM puts the script, and how many bytes of the transaction
\* follow it before the stack starts; both are multiples of the word size.
ScriptBases == {8, 16}
TxTails == {0, 8}

Align8(n) == ((n + 7) \div 8) * 8

VARIABLES binary, blob_id, binary2, script_base, tx_tail, phase,
          data_section_offset, without_data_section, blobs,
          artifact, artifact2, reg, ssp, mem, receipts

input_vars == <<binary, blob_id, binary2, script_base, tx_tail>>
test_vars == <<data_section_offset, without_data_section, blobs, artifact, artifact2>>
vm_vars == <<reg, ssp, mem, receipts>>
vars == <<input_vars, phase, test_vars, vm_vars>>

Addrs == 0..(VM_MAX_RAM - 1)
RegIds == 0..63
hp == VM_MAX_RAM

Init ==
  /\ binary \in Binaries
  /\ binary2 \in { Altered(binary, k) : k \in AlteredAt }
  /\ blob_id \in BlobIds
  /\ script_base \in ScriptBases
  /\ tx_tail \in TxTails
  /\ phase = "start"
  /\ data_section_offset = Panicked
  /\ without_data_section = Panicked
  /\ blobs = <<>>
  /\ artifact = Panicked
  /\ artifact2 = Panicked
  /\ reg = [r \in RegIds |-> 0]
  /\ ssp = 0
  /\ mem = [a \in Addrs |-> 0]
  /\ receipts = <<>>

\* ------------------------------------------------------------------ the test
\* tests::test_name, lines 131-146: read the offset, cut the code off the
\* binary and publish it as a blob.  binary[..offset] panics when the offset
\* exceeds the length.
PublishBlob ==
  /\ phase = "start"
  /\ phase' = "published"
  /\ data_section_offset' = extract_data_offset(binary)
  /\ IF data_section_offset'.ok /\ U64Leq(data_section_offset'.val, Len(binary))
       THEN /\ without_data_section' =
                 Ok(Take(binary, U64Low(data_section_offset'.val)))
            /\ blobs' = <<[id |-> blob_id, payload |-> without_data_section'.val]>>
       ELSE /\ without_data_section' = Panicked
            /\ blobs' = <<>>
  /\ UNCHANGED <<input_vars, artifact, artifact2, vm_vars>>

\* Line 152: the call of transform_into_configurable_loader.  The function is
\* called on every input, also on those on which line 133 panicked.
Transform ==
  /\ phase = "published"
  /\ phase' = "transformed"
  /\ artifact' = transform_into_configurable_loader(binary, blob_id)
  /\ UNCHANGED <<input_vars, data_section_offset, without_data_section, blobs,
                 artifact2, vm_vars>>

\* A second, independent call of the function, on binary2 and the same blob id.
Rerun ==
  /\ phase = "transformed"
  /\ phase' = "rerun"
  /\ artifact2' = transform_into_configurable_loader(binary2, blob_id)
  /\ UNCHANGED <<input_vars, data_section_offset, without_data_section, blobs,
                 artifact, vm_vars>>

\* Lines 155-157: the loader is run as a script.  The VM places the script
\* bytes at $is, starts the stack after the transaction, and sets $pc = $is.
StackStart == Align8(script_base + Len(artifact.val)) + tx_tail
LoadScript ==
  /\ phase = "rerun"
  /\ without_data_section.ok
  /\ artifact.ok
  /\ StackStart <= hp
  /\ phase' = "running"
  /\ mem' = [a \in Addrs |->
               IF a >= script_base /\ a < script_base + Len(artifact.val)
                 THEN artifact.val[a - script_base + 1] ELSE 0]
  /\ reg' = [r \in RegIds |->
               CASE r = 1 -> 1
                 [] r = RegPC -> script_base
                 [] r = RegIS -> script_base
                 [] r = RegSP -> StackStart
                 [] OTHER -> 0]
  /\ ssp' = StackStart
  /\ receipts' = <<>>
  /\ UNCHANGED <<input_vars, test_vars>>

\* ------------------------------------------------------------------ the VM
\* MEM[a, n] as a sequence of n bytes.
MemRead(a, n) == [i \in 1..n |-> mem[a + i - 1]]
InMem(a, n) == a + n <= VM_MAX_RAM

\* The instruction at $pc.
Cur == Decode(MemRead(reg[RegPC], InstructionSIZE))
Running(op) == phase = "running" /\ InMem(reg[RegPC], InstructionSIZE) /\ Cur.op = op

\* A 64-bit word read from memory.  A word of 2^16 or more is kept as hp + 1:
\* it exceeds every address, which is all the loader's uses of it depend on.
Word(b) ==
  LET w == from_be_bytes(b) IN IF U64Leq(w, hp) THEN U64Low(w) ELSE hp + 1

BlobOf(id) ==
  IF \E k \in 1..Len(blobs) : blobs[k].id = id
    THEN Ok((CHOOSE b \in {blobs[k] : k \in 1..Len(blobs)} : b.id = id).payload)
    ELSE Panicked

VmPanic ==
  /\ phase' = "vm_panic"
  /\ UNCHANGED <<input_vars, test_vars, vm_vars>>

\* Write v to register ra and advance $pc; registers below 16 are reserved.
SetReg(ra, v) ==
  IF ra < 16 THEN VmPanic
  ELSE /\ reg' = [reg EXCEPT ![ra] = v, ![RegPC] = reg[RegPC] + InstructionSIZE]
       /\ UNCHANGED <<input_vars, phase, test_vars, ssp, mem, receipts>>

\* MOVE $rA, $rB
ExecMove == Running("MOVE") /\ SetReg(Cur.ra, reg[Cur.rb])

\* ADDI $rA, $rB, imm
ExecAddi == Running("ADDI") /\ SetReg(Cur.ra, reg[Cur.rb] + Cur.imm)

\* ADD $rA, $rB, $rC
ExecAdd == Running("ADD") /\ SetReg(Cur.ra, reg[Cur.rb] + reg[Cur.rc])

\* SUB $rA, $rB, $rC: panics on underflow.
ExecSub ==
  /\ Running("SUB")
  /\ IF reg[Cur.rb] < reg[Cur.rc] THEN VmPanic
     ELSE SetReg(Cur.ra, reg[Cur.rb] - reg[Cur.rc])

\* DIVI $rA, $rB, imm: panics on division by zero.
ExecDivi ==
  /\ Running("DIVI")
  /\ IF Cur.imm = 0 THEN VmPanic ELSE SetReg(Cur.ra, reg[Cur.rb] \div Cur.imm)

\* BSIZ $rA, $rB: the size of the blob whose id is MEM[$rB, 32].
ExecBsiz ==
  /\ Running("BSIZ")
  /\ IF ~InMem(reg[Cur.rb], BLOB_ID_SIZE) THEN VmPanic
     ELSE LET blob == BlobOf(MemRead(reg[Cur.rb], BLOB_ID_SIZE))
          IN  IF ~blob.ok THEN VmPanic ELSE SetReg(Cur.ra, Len(blob.val))

\* LDC $rA, $rB, $rC, 1: copy $rC bytes of the blob whose id is MEM[$rA, 32],
\* from offset $rB, to $ssp; the length is padded to the word size with zero
\* bytes, and $ssp and $sp move past the padded length.  The stack must be
\* unused ($ssp = $sp).
LoadedLen(n) == Align8(n)
ExecLdc ==
  /\ Running("LDC")
  /\ IF \/ Cur.rd # 1
        \/ ~InMem(reg[Cur.ra], BLOB_ID_SIZE)
        \/ ssp # reg[RegSP]
        \/ ssp + LoadedLen(reg[Cur.rc]) > hp
       THEN VmPanic
     ELSE
       LET blob == BlobOf(MemRead(reg[Cur.ra], BLOB_ID_SIZE))
           new_sp == ssp + LoadedLen(reg[Cur.rc])
       IN  IF ~blob.ok THEN VmPanic
           ELSE /\ mem' = [a \in Addrs |->
                             IF a >= ssp /\ a < new_sp
                               THEN LET k == reg[Cur.rb] + (a - ssp)
                                    IN  IF k < Len(blob.val) THEN blob.val[k + 1] ELSE 0
                               ELSE mem[a]]
                /\ ssp' = new_sp
                /\ reg' = [reg EXCEPT ![RegSP] = new_sp,
                                      ![RegPC] = reg[RegPC] + InstructionSIZE]
                /\ UNCHANGED <<input_vars, phase, test_vars, receipts>>

\* LW $rA, $rB, imm: the big-endian word at $rB + imm * 8.
ExecLw ==
  /\ Running("LW")
  /\ IF ~InMem(reg[Cur.rb] + Cur.imm * WORD_SIZE, WORD_SIZE) THEN VmPanic
     ELSE SetReg(Cur.ra, Word(MemRead(reg[Cur.rb] + Cur.imm * WORD_SIZE, WORD_SIZE)))

\* CFE $rA: extend the stack by $rA bytes.
ExecCfe ==
  /\ Running("CFE")
  /\ IF reg[RegSP] + reg[Cur.ra] > hp THEN VmPanic
     ELSE /\ reg' = [reg EXCEPT ![RegSP] = reg[RegSP] + reg[Cur.ra],
                                ![RegPC] = reg[RegPC] + InstructionSIZE]
          /\ UNCHANGED <<input_vars, phase, test_vars, ssp, mem, receipts>>

\* MCP $rA, $rB, $rC: MEM[$rA, $rC] = MEM[$rB, $rC].  The destination must be
\* owned stack ([$ssp, $sp)) and the two ranges must not overlap.
StackOwned(a, n) ==
  \/ n = 0 /\ a = ssp
  \/ a >= ssp /\ a < reg[RegSP] /\ a + n <= reg[RegSP]
ExecMcp ==
  /\ Running("MCP")
  /\ LET dst == reg[Cur.ra]
         src == reg[Cur.rb]
         len == reg[Cur.rc]
     IN  IF \/ ~InMem(dst, len)
            \/ ~InMem(src, len)
            \/ ~StackOwned(dst, len)
            \/ (len > 0 /\ dst < src + len /\ src < dst + len)
           THEN VmPanic
         ELSE /\ mem' = [a \in Addrs |->
                           IF a >= dst /\ a < dst + len THEN mem[src + (a - dst)]
                           ELSE mem[a]]
              /\ reg' = [reg EXCEPT ![RegPC] = reg[RegPC] + InstructionSIZE]
              /\ UNCHANGED <<input_vars, phase, test_vars, ssp, receipts>>

\* LOGD $rA, $rB, $rC, $rD: a LogData receipt carrying MEM[$rC, $rD].
ExecLogd ==
  /\ Running("LOGD")
  /\ IF ~InMem(reg[Cur.rc], reg[Cur.rd]) THEN VmPanic
     ELSE /\ receipts' = Append(receipts,
                                [ra |-> reg[Cur.ra], rb |-> reg[Cur.rb],
                                 ptr |-> reg[Cur.rc], len |-> reg[Cur.rd],
                                 data |-> MemRead(reg[Cur.rc], reg[Cur.rd])])
          /\ reg' = [reg EXCEPT ![RegPC] = reg[RegPC] + InstructionSIZE]
          /\ UNCHANGED <<input_vars, phase, test_vars, ssp, mem>>

\* JMP $rA: $pc = $is + $rA * 4.  Control is now in the loaded code.
ExecJmp ==
  /\ Running("JMP")
  /\ IF reg[RegIS] + reg[Cur.ra] * InstructionSIZE >= VM_MAX_RAM THEN VmPanic
     ELSE /\ phase' = "jumped"
          /\ reg' = [reg EXCEPT ![RegPC] = reg[RegIS] + reg[Cur.ra] * InstructionSIZE]
          /\ UNCHANGED <<input_vars, test_vars, ssp, mem, receipts>>

Next ==
  \/ PublishBlob
  \/ Transform
  \/ Rerun
  \/ LoadScript
  \/ ExecMove
  \/ ExecAddi
  \/ ExecAdd
  \/ ExecSub
  \/ ExecDivi
  \/ ExecBsiz
  \/ ExecLdc
  \/ ExecLw
  \/ ExecCfe
  \/ ExecMcp
  \/ ExecLogd
  \/ ExecJmp

Spec == Init /\ [][Next]_vars

\* ------------------------------------------------------------------ properties
\* The header as the data model describes it, read off the bytes directly:
\* the seven high bytes of the field are zero and the low byte is at most
\* the length (every modelled binary is shorter than 256 bytes).
HeaderRead(b) == Len(b) >= HEADER_LEN
ValidHeader(b) ==
  /\ HeaderRead(b)
  /\ \A i \in 9..15 : b[i] = 0
  /\ b[16] <= Len(b)
HeaderOffset(b) == b[16]
DataLen(b) == Len(b) - HeaderOffset(b)

Published == phase # "start"
Transformed == phase \notin {"start", "published"}
Reran == phase \notin {"start", "published", "transformed"}
Started == phase \in {"running", "jumped", "vm_panic"}

\* Length of the instruction block of the artifact built from binary.
BlockLen == Len(artifact.val) - BLOB_ID_SIZE - WORD_SIZE - DataLen(binary)
EncodedLoader(n) ==
  Flatten([k \in 1..Len(get_instructions(n)) |-> to_bytes(get_instructions(n)[k])])

\* C1: for a binary whose data offset is at most its length, the artifact is
\* the encoded loader instructions, then the 32 identifier bytes unmodified,
\* then the 8-byte big-endian length of the data section, then
\* binary[offset..]; the instruction block is a whole number of 4-byte
\* instructions.
C1_ArtifactLayout ==
  (Transformed /\ ValidHeader(binary)) =>
    /\ artifact.ok
    /\ BlockLen > 0
    /\ BlockLen % InstructionSIZE = 0
    /\ Take(artifact.val, BlockLen) = EncodedLoader(BlockLen \div InstructionSIZE)
    /\ \A k \in 0..(BlockLen \div InstructionSIZE - 1) :
         Decode(SubSeq(artifact.val, 4 * k + 1, 4 * k + 4)).op \in Ops
    /\ SubSeq(artifact.val, BlockLen + 1, BlockLen + 32) = blob_id
    /\ SubSeq(artifact.val, BlockLen + 33, BlockLen + 40)
         = <<0, 0, 0, 0, 0, 0, 0, DataLen(binary)>>
    /\ SubSeq(artifact.val, BlockLen + 41, Len(artifact.val))
         = SubSeq(binary, HeaderOffset(binary) + 1, Len(binary))
    /\ Len(artifact.val) = BlockLen + 32 + 8 + DataLen(binary)

C1_Witness ==
  /\ Transformed /\ ValidHeader(binary) /\ artifact.ok
  /\ HeaderOffset(binary) > HEADER_LEN
  /\ DataLen(binary) > 1

\* C3: for a binary with a valid 16-byte header, extract_data_offset returns
\* a value that is at most the binary's length, and the code cut off at that
\* offset followed by the data section appended to the artifact is the binary.
C3_SplitReproduces ==
  (Published /\ ValidHeader(binary)) =>
    /\ data_section_offset.ok
    /\ U64Leq(data_section_offset.val, Len(binary))
    /\ without_data_section.ok
    /\ Transformed =>
         /\ artifact.ok
         /\ without_data_section.val
              \o Drop(artifact.val,
                      Len(artifact.val) - (Len(binary) - Len(without_data_section.val)))
            = binary

C3_Witness ==
  /\ Transformed /\ ValidHeader(binary) /\ artifact.ok
  /\ Len(without_data_section.val) > HEADER_LEN
  /\ Len(without_data_section.val) < Len(binary)

\* C4: for a binary of at least 16 bytes, extract_data_offset returns the
\* integer whose 8-byte big-endian encoding is bytes [8,16), byte 8 most
\* significant and byte 15 least, whatever the other bytes are.
C4_BigEndianField ==
  (Published /\ HeaderRead(binary)) =>
    /\ data_section_offset.ok
    /\ to_be_bytes(data_section_offset.val) = SubSeq(binary, 9, 16)
    /\ (\A i \in 9..15 : binary[i] = 0) =>
         /\ U64Leq(data_section_offset.val, 255)
         /\ U64Low(data_section_offset.val) = binary[16]
    /\ binary[9] > 0 => ~U64Leq(data_section_offset.val, 65535)
    /\ (HeaderRead(binary2) /\ SubSeq(binary2, 9, 16) = SubSeq(binary, 9, 16)) =>
         extract_data_offset(binary2) = data_section_offset

C4_Witness ==
  /\ Published /\ HeaderRead(binary) /\ data_section_offset.ok
  /\ binary[9] = 1 /\ binary[16] = 2
  /\ binary2 # binary

\* C5: transform_into_configurable_loader fails, returning no bytes, exactly
\* when the binary has fewer than 16 bytes or its data offset exceeds its
\* length; on every other input it returns an artifact.
C5_FailsOnMalformed ==
  Transformed =>
    /\ artifact.ok <=> ValidHeader(binary)
    /\ ~artifact.ok => artifact.val = <<>>
    /\ artifact.ok => Len(artifact.val) >= BLOB_ID_SIZE + WORD_SIZE

C5_Witness ==
  /\ Transformed /\ Len(binary) = 15 /\ ~artifact.ok

\* C6: the template returns the same number of instructions for every count
\* passed to it; the immediate of the add-immediate that advances the data
\* pointer past the loader is the number of instructions emitted times the
\* instruction width; once that instruction has run, the data pointer (the
\* program counter captured by the first instruction plus the immediate) is
\* the address of the first byte of the blob identifier.
C6_SelfReference ==
  /\ \A n \in 0..MaxCount : Len(get_instructions(n)) = Len(get_instructions(0))
  /\ (Transformed /\ artifact.ok) =>
       /\ Decode(SubSeq(artifact.val, 1, 4)).op = "MOVE"
       /\ Decode(SubSeq(artifact.val, 1, 4)).rb = RegPC
       /\ Decode(SubSeq(artifact.val, 5, 8)).op = "ADDI"
       /\ Decode(SubSeq(artifact.val, 5, 8)).rb = Decode(SubSeq(artifact.val, 1, 4)).ra
       /\ Decode(SubSeq(artifact.val, 5, 8)).imm = BlockLen
       /\ SubSeq(artifact.val, BlockLen + 1, BlockLen + BLOB_ID_SIZE) = blob_id
  /\ (phase = "running" /\ reg[RegPC] = script_base + 2 * InstructionSIZE) =>
       /\ reg[REG_ADDRESS_OF_DATA_AFTER_CODE] = script_base + BlockLen
       /\ MemRead(reg[REG_ADDRESS_OF_DATA_AFTER_CODE], BLOB_ID_SIZE) = blob_id

C6_Witness ==
  /\ phase = "running"
  /\ reg[RegPC] = script_base + 2 * InstructionSIZE
  /\ reg[REG_ADDRESS_OF_DATA_AFTER_CODE] = script_base + BlockLen
  /\ DataLen(binary) > 0

\* C8: two calls whose binaries have the same data offset and the same data
\* section, with the same identifier, return the same artifact, whatever the
\* code bytes before the offset are; the instruction block is the same for
\* every input.
SameOffsetAndData ==
  /\ SubSeq(binary, 9, 16) = SubSeq(binary2, 9, 16)
  /\ Drop(binary, HeaderOffset(binary)) = Drop(binary2, HeaderOffset(binary2))
C8_Deterministic ==
  (Reran /\ ValidHeader(binary) /\ ValidHeader(binary2)) =>
    /\ artifact.ok /\ artifact2.ok
    /\ SameOffsetAndData => artifact2 = artifact
    /\ Take(artifact2.val, Len(artifact2.val) - 40 - DataLen(binary2))
         = Take(artifact.val, BlockLen)

C8_Witness ==
  /\ Reran /\ artifact.ok /\ artifact2.ok
  /\ binary2 # binary
  /\ SameOffsetAndData
  /\ DataLen(binary) > 0
  /\ artifact2 = artifact

\* ------------------------------------------------------------------ the loader run
\* Addresses of the three parts that follow the instruction block in memory.
BlobIdAddr == script_base + BlockLen
LenFieldAddr == BlobIdAddr + BLOB_ID_SIZE
DataAddr == LenFieldAddr + WORD_SIZE
Code == without_data_section.val
Data == Drop(binary, HeaderOffset(binary))
\* The copy is done once the instruction after the memory copy is next.
CopyDone == phase = "jumped" \/ (phase = "running" /\ Len(receipts) = 1)

\* C2: the one log-data instruction of the run logs the span that starts at
\* the loaded-code pointer, is blob size + data length long, and equals
\* code ++ data, the whole original binary.
C2_RoundTrip ==
  /\ phase = "jumped" => Len(receipts) = 1
  /\ Len(receipts) >= 1 =>
       /\ Len(receipts) = 1
       /\ receipts[1].ptr = StackStart
       /\ receipts[1].len = Len(Code) + Len(Data)
       /\ receipts[1].data = Code \o Data
       /\ receipts[1].data = binary

\* C9: the data pointer is at the blob identifier when blob-size and
\* load-code run, at the length field when load-word runs, at the raw data
\* bytes when the memory copy runs; the copy destination is the stack pointer
\* the code load left; after the copy the data section lies immediately
\* after the loaded code, for every blob size and data length.
C9_PointerWalk ==
  /\ Running("BSIZ") => reg[Cur.rb] = BlobIdAddr
  /\ Running("LDC") => reg[Cur.ra] = BlobIdAddr /\ reg[Cur.rc] = Len(Code)
  /\ Running("LW") => reg[Cur.rb] + Cur.imm * WORD_SIZE = LenFieldAddr
  /\ Running("MCP") =>
       /\ reg[Cur.rb] = DataAddr
       /\ reg[Cur.rc] = Len(Data)
       /\ reg[Cur.ra] = reg[RegSP] - Len(Data)
       /\ reg[Cur.ra] = ssp
C9_DataPlacement ==
  /\ C9_PointerWalk
  /\ CopyDone =>
       /\ MemRead(StackStart, Len(Code)) = Code
       /\ MemRead(StackStart + Len(Code), Len(Data)) = Data

\* Supporting fact: the round trip and the placement do hold for the binaries
\* whose data offset is a multiple of the word size or whose data section is
\* empty, where the load-code padding is nil or is not followed by data.
WordAligned ==
  ValidHeader(binary) /\ (HeaderOffset(binary) % WORD_SIZE = 0 \/ DataLen(binary) = 0)
RoundTripWordAligned == (Started /\ WordAligned) => (C2_RoundTrip /\ C9_DataPlacement)

\* C7: with offset = len(binary) the artifact ends with the identifier and an
\* all-zero 8-byte length field; the stack extension leaves the stack pointer
\* where the code load put it, the memory copy has length 0 and changes no
\* byte of memory, and the logged span is the code bytes alone.
ZeroData == ValidHeader(binary) /\ HeaderOffset(binary) = Len(binary)
C7_State ==
  ZeroData =>
    /\ Transformed =>
         /\ artifact.ok
         /\ Len(artifact.val) = Len(EncodedLoader(0)) + BLOB_ID_SIZE + WORD_SIZE
         /\ SubSeq(artifact.val, Len(artifact.val) - 39, Len(artifact.val) - 8) = blob_id
         /\ SubSeq(artifact.val, Len(artifact.val) - 7, Len(artifact.val))
              = <<0, 0, 0, 0, 0, 0, 0, 0>>
    /\ phase # "vm_panic"
    /\ phase = "jumped" =>
         /\ Len(receipts) = 1
         /\ receipts[1].data = Code
         /\ receipts[1].data = binary
C7_Steps ==
  /\ (ZeroData /\ Running("CFE")) =>
       /\ phase' = "running"
       /\ reg[RegSP] = ssp
       /\ reg'[RegSP] = reg[RegSP]
  /\ (ZeroData /\ Running("MCP")) =>
       /\ phase' = "running"
       /\ reg[Cur.rc] = 0
       /\ mem' = mem
C7_ZeroLengthData == [](C7_State) /\ [][C7_Steps]_vars

C7_Witness ==
  /\ ZeroData /\ phase = "jumped"
  /\ Len(binary) > HEADER_LEN
  /\ receipts[1].data = binary

\* C10: the last instruction of the loader is the jump; when it runs the code
\* is loaded, the data is copied and the log is written; it transfers control
\* to the stack pointer recorded before the code load, where the loaded code
\* starts; subtracting the base and dividing by 4 loses nothing.
C10_ControlTransfer ==
  /\ (Transformed /\ artifact.ok) =>
       /\ Decode(SubSeq(artifact.val, BlockLen - 3, BlockLen)).op = "JMP"
       /\ \A k \in 0..(BlockLen \div InstructionSIZE - 2) :
            Decode(SubSeq(artifact.val, 4 * k + 1, 4 * k + 4)).op # "JMP"
  /\ Started => phase # "vm_panic"
  /\ Running("DIVI") => reg[Cur.rb] % Cur.imm = 0
  /\ Running("JMP") =>
       /\ reg[RegPC] = script_base + BlockLen - InstructionSIZE
       /\ Len(receipts) = 1
       /\ MemRead(StackStart, Len(Code)) = Code
       /\ MemRead(reg[RegSP] - Len(Data), Len(Data)) = Data
       /\ reg[RegIS] + reg[Cur.ra] * InstructionSIZE = StackStart
  /\ phase = "jumped" =>
       /\ reg[RegPC] = StackStart
       /\ MemRead(reg[RegPC], Len(Code)) = Code
       /\ Len(receipts) = 1

C10_Witness ==
  /\ phase = "jumped"
  /\ reg[RegPC] = StackStart
  /\ StackStart > script_base + Len(artifact.val)
  /\ Len(Code) > HEADER_LEN

====
